---- MODULE Spec2Model ----
(***************************************************************************)
(* Session restoration and chat initiation of the Qiscus multichannel      *)
(* widget: StorageService (Session Store), StateManager (State Store),     *)
(* ChatService (orchestrator) and the parts of QiscusMultichannelWidget    *)
(* that drive them.  The chat SDK and the REST backend are the             *)
(* environment: every call to them returns one of the outcomes they can    *)
(* produce.                                                                *)
(***************************************************************************)
EXTENDS Integers, Sequences, FiniteSets, TLC

\* ---------------------------------------------------------------- bounds
MaxMsgs == 3            \* longest message list the State Store is driven to
MaxUnread == 3          \* cap of the unread counter
MaxBatch == 2           \* most messages the transport delivers in one batch
MaxNonce == 2           \* nonces the transport hands out in one page life

\* ---------------------------------------------------------------- values
NULL == "NULL"          \* JavaScript null / undefined / absent storage key

Apps == {"appA", "appB"}
Users == {"u1", "u2"}
Tokens == {"tok_u1", "tok_u2"}
Rooms == {"n1", "n2"}           \* room ids as JavaScript numbers 1, 2
ResolvableRooms == {"n1"}       \* the room an agent gets to resolve

\* the token the transport issues for a user (sdk.token after login)
TokenOf(u) == IF u = "u1" THEN "tok_u1" ELSE "tok_u2"

\* a stored user record without the user sub-object that tryRestoreSession
\* reads (user.user.username)
Malformed == "bad"
WellFormed(u) == u \in Users

\* JSON.stringify / JSON.parse of a user record
JSONstringify(u) ==
    IF u = "u1" THEN "json_u1" ELSE IF u = Malformed THEN "json_bad" ELSE "json_u2"
JSONparse(s) ==
    IF s = "json_u1" THEN "u1" ELSE IF s = "json_bad" THEN Malformed ELSE "u2"

\* Number.prototype.toString and parseInt(str, 10) on room ids
toString(n) == IF n = "n1" THEN "s1" ELSE "s2"
parseInt(s) == IF s = "s1" THEN "n1" ELSE "n2"

\* JavaScript truthiness of the values above (null/undefined are falsy)
Truthy(x) == x # NULL

\* ------------------------------------------------------------- messages
\* A message is what the transport delivers: permanent id, unique_temp_id
\* and unique_id (the SDK sets unique_id = unique_temp_id).
Msg(i, t) == [id |-> i, unique_temp_id |-> t, unique_id |-> t]
P1 == Msg(NULL, "t1")           \* pending, temporary id t1
S1 == Msg("i1", "t1")           \* server-confirmed version of P1
S2 == Msg("i2", "t2")
O1 == Msg("i3", NULL)           \* older message that carries only an id
MsgPool == {P1, S1, S2, O1}

\* dedup key of StateManager.addMessage / prependMessages
MsgKey(m) ==
    IF Truthy(m.unique_temp_id) THEN m.unique_temp_id
    ELSE IF Truthy(m.unique_id) THEN m.unique_id
    ELSE m.id

\* dedup identity of the data model: id if present, else temporary id
Identity(m) == IF m.id # NULL THEN m.id ELSE m.unique_temp_id

\* ------------------------------------------------------------- room data
\* room.options as delivered by the transport
OptAbsent   == [kind |-> "absent", is_resolved |-> FALSE, extras_is_resolved |-> FALSE]
OptObj(a, b) == [kind |-> "object", is_resolved |-> a, extras_is_resolved |-> b]
OptStr(a, b) == [kind |-> "string", is_resolved |-> a, extras_is_resolved |-> b]
OptBad      == [kind |-> "badstring", is_resolved |-> FALSE, extras_is_resolved |-> FALSE]

\* the encodings the server uses for a resolved / an open room
ResolvedOptions == {OptStr(FALSE, TRUE)}
OpenOptions == {OptAbsent, OptObj(FALSE, FALSE)}

\* State Store room: null, or an object with the keys the fetch returned
NullRoom == [nil |-> TRUE, id |-> NULL, options |-> OptAbsent]
RoomObj(r, o) == [nil |-> FALSE, id |-> r, options |-> o]

\* { ...old, ...new }: the keys of new win.  A room object of the SDK always
\* has the id and options keys (options may hold no value), so a fetched
\* room replaces both; spreading a missing room adds no key.
MergeRoom(old, new) ==
    IF new.nil THEN [old EXCEPT !.nil = FALSE] ELSE new

VARIABLES
    appId,          \* config.appId of the widget on this page
    userConfig,     \* widget.userConfig
    phase,          \* "constructed" until initialize() has run, then "ready"
    storage,        \* localStorage keys of StorageService.KEYS
    state,          \* StateManager.state
    sdk,            \* the SDK object: ready (sdk # null), isLogin, token, userData
    sessional,      \* backend: is_sessional of the configured application
    resolved,       \* backend: rooms an agent has marked resolved
    inv,            \* initiateChat invocations in flight or finished
    send,           \* the sendMessage call in flight or finished
    more,           \* loadMoreMessages: "idle", or "loading" while it awaits
    nonces,         \* number of nonces handed out
    emitted         \* events emitted by the last step, in order

vars == <<appId, userConfig, phase, storage, state, sdk, sessional, resolved,
          inv, send, more, nonces, emitted>>

\* ------------------------------------------------------- StorageService
EmptyStorage ==
    [lastAppId |-> NULL, lastUserId |-> NULL, lastUserData |-> NULL,
     lastUserToken |-> NULL, lastRoomId |-> NULL]

\* localStorage.setItem stores the string form of its argument
StoredString(v) == IF v = NULL THEN "null" ELSE v

\* (variant: a tuple that is already stored is not overwritten)
saveSession_keepsFirst(sto, app, user, token, roomId) ==
    IF sto.lastAppId # NULL THEN sto
    ELSE [lastAppId |-> app,
          lastUserId |-> user,
          lastUserData |-> JSONstringify(user),
          lastUserToken |-> StoredString(token),
          lastRoomId |-> IF Truthy(roomId) THEN toString(roomId)
                         ELSE sto.lastRoomId]

saveSession(sto, app, user, token, roomId) ==
    [lastAppId |-> app,
     lastUserId |-> user,
     lastUserData |-> JSONstringify(user),
     lastUserToken |-> StoredString(token),
     lastRoomId |-> IF Truthy(roomId) THEN toString(roomId) ELSE sto.lastRoomId]

\* saveSession when localStorage.setItem throws: the catch block swallows
\* the error.  written is the number of setItem calls that succeeded: none
\* (storage unavailable or full) or all of them; what a write that stops
\* in between leaves behind is among the PartialTuples below.
SaveOutcomes == {0, 5}
saveSessionWrites(sto, app, user, token, roomId, written) ==
    IF written = 5 THEN saveSession(sto, app, user, token, roomId) ELSE sto

NoSession == [nil |-> TRUE, user |-> NULL, token |-> NULL, roomId |-> NULL]

getSession(sto, app) ==
    IF sto.lastAppId # app THEN NoSession
    ELSE IF ~Truthy(sto.lastUserData) \/ ~Truthy(sto.lastUserToken) THEN NoSession
    ELSE [nil |-> FALSE,
          user |-> JSONparse(sto.lastUserData),
          token |-> sto.lastUserToken,
          roomId |-> IF Truthy(sto.lastRoomId) THEN parseInt(sto.lastRoomId) ELSE NULL]

clearStorage(sto) == EmptyStorage

\* --------------------------------------------------------- StateManager
InitialState ==
    [currentUser |-> NULL, room |-> NullRoom, messages |-> {},
     messagesList |-> <<>>, roomId |-> NULL, isOpen |-> FALSE,
     isLoggedIn |-> FALSE, isTyping |-> FALSE, unreadCount |-> 0,
     subtitle |-> NULL]

addMessage(s, m) ==
    IF MsgKey(m) \in s.messages THEN s
    ELSE [s EXCEPT !.messages = @ \cup {MsgKey(m)},
                   !.messagesList = Append(@, m)]

RECURSIVE addMessages(_, _)
addMessages(s, ms) ==
    IF ms = <<>> THEN s ELSE addMessages(addMessage(s, Head(ms)), Tail(ms))

\* (variant: the list is emptied but the Map of known keys is not)
setMessages_keepsMap(s, ms) ==
    addMessages([s EXCEPT !.messagesList = <<>>], ms)

setMessages(s, ms) ==
    addMessages([s EXCEPT !.messages = {}, !.messagesList = <<>>], ms)

prependMessages(s, ms) ==
    [s EXCEPT !.messages = @ \cup {MsgKey(ms[k]) : k \in 1..Len(ms)},
              !.messagesList = ms \o @]

incrementUnread(s) == [s EXCEPT !.unreadCount = @ + 1]

resetUnread(s) == [s EXCEPT !.unreadCount = 0]

\* (variant: reset keeps the room id)
reset_keepsRoomId(s) == [InitialState EXCEPT !.roomId = s.roomId]

reset(s) == InitialState

\* events: name and the payload fields the listeners read
NoMsg == Msg(NULL, NULL)
Event(n, u, r, hasRoom, hasMsgs) ==
    [name |-> n, user |-> u, roomId |-> r, room |-> hasRoom,
     messages |-> hasMsgs, msg |-> NoMsg]
MsgEvent(n, m) == [Event(n, NULL, NULL, FALSE, FALSE) EXCEPT !.msg = m]

\* ------------------------------------------------------------- the SDK
NoSDK == [ready |-> FALSE, isLogin |-> FALSE, token |-> NULL, userData |-> NULL]

\* ------------------------------------------------ initiateChat invocations
Inv == {1}

\* an HTTP response of the backend: status and body.  The body is text
\* that is no JSON, the JSON value null, or a JSON object with or without
\* errors and errors.message.
Body(k, e, m) == [kind |-> k, hasErrors |-> e, message |-> m]
NoResponse == [status |-> 0, body |-> Body("none", FALSE, NULL)]

\* what the previous direct call of updateRoomInfo returned and left in the
\* message list (nothing when there was none)
NoBefore == [has |-> FALSE, fetch |-> <<>>, list |-> <<>>]

IdleInv ==
    [pc |-> "idle", path |-> "none", app |-> NULL, channelId |-> NULL,
     cfg |-> NULL, calls |-> {}, sessUser |-> NULL, sessRoom |-> NULL,
     nonce |-> 0, payload |-> {}, userData |-> NULL, roomId |-> NULL,
     room |-> NullRoom, msgs |-> <<>>, curUser |-> NULL,
     fetched |-> FALSE, flag |-> OptAbsent,
     isResolved |-> "unknown", policy |-> "none", restore |-> "none",
     outcome |-> "none", result |-> NULL, errors |-> 0, saveFailed |-> FALSE,
     listAfter |-> <<>>, before |-> NoBefore,
     endpoint |-> NULL, response |-> NoResponse, message |-> NULL,
     token |-> NULL, session |-> NoSession]

IdleSend == [pc |-> "idle", text |-> NULL, roomId |-> NULL, error |-> "none",
             outcome |-> "none", sends |-> 0]

\* a session of this application of which one key is missing: setItem
\* swallows a failed write, and saveSession skips lastRoomId for a falsy id
PartialTuples ==
    LET full == saveSession(EmptyStorage, "appA", "u1", TokenOf("u1"), "n1")
    IN {[full EXCEPT !.lastUserData = NULL],
        [full EXCEPT !.lastUserToken = NULL],
        [full EXCEPT !.lastRoomId = NULL]}

\* what an earlier page life can have left in localStorage: nothing, the
\* session saved by a widget of either application, or a partial one
Leftover ==
    {EmptyStorage} \cup
    {saveSession(EmptyStorage, a, "u1", TokenOf("u1"), "n1") : a \in Apps}
    \cup PartialTuples

Init ==
    /\ appId = "appA"
    /\ userConfig = NULL
    /\ phase = "constructed"
    /\ storage \in Leftover
    /\ state = InitialState
    /\ sdk = NoSDK
    /\ sessional \in BOOLEAN
    /\ resolved = {}
    /\ inv = [i \in Inv |-> IdleInv]
    /\ send = IdleSend
    /\ more = "idle"
    /\ nonces = 0
    /\ emitted = <<>>

\* ------------------------------------------- QiscusMultichannelWidget
\* restoreSession(): reads the raw keys, whatever application saved them
restoreSession(sto, s) ==
    LET lastUserData == IF sto.lastUserData # NULL
                        THEN JSONparse(sto.lastUserData) ELSE NULL
        s1 == IF lastUserData # NULL /\ sto.lastUserToken # NULL
              THEN [s EXCEPT !.currentUser = lastUserData, !.isLoggedIn = TRUE]
              ELSE s
    IN IF sto.lastRoomId # NULL
       THEN [s1 EXCEPT !.roomId = parseInt(sto.lastRoomId)]
       ELSE s1

\* initialize(): loadSDK, sdk init, restoreSession, createWidget
Initialize ==
    /\ phase = "constructed"
    /\ phase' = "ready"
    /\ \E loaded \in BOOLEAN, pushed \in BOOLEAN :
         IF ~loaded
         THEN UNCHANGED <<sdk, state, userConfig>>
         ELSE LET has == storage.lastUserData # NULL /\ storage.lastUserToken # NULL
              IN /\ state' = restoreSession(storage, state)
                 /\ userConfig' = IF has THEN JSONparse(storage.lastUserData)
                                  ELSE userConfig
                 /\ sdk' = IF has /\ pushed
                           THEN [ready |-> TRUE, isLogin |-> TRUE,
                                 token |-> storage.lastUserToken,
                                 userData |-> JSONparse(storage.lastUserData)]
                           ELSE [sdk EXCEPT !.ready = TRUE]
    /\ emitted' = <<>>
    /\ UNCHANGED <<appId, storage, sessional, resolved, inv, send, more, nonces>>

\* a new page load: memory is gone, localStorage stays
PageLoad ==
    /\ phase = "ready"
    /\ userConfig' = NULL
    /\ phase' = "constructed"
    /\ state' = InitialState
    /\ sdk' = NoSDK
    /\ inv' = [i \in Inv |-> IdleInv]
    /\ send' = IdleSend
    /\ more' = "idle"
    /\ nonces' = 0
    /\ emitted' = <<>>
    /\ UNCHANGED <<appId, storage, sessional, resolved>>

setUser(u) ==
    /\ userConfig' = u
    /\ emitted' = <<>>
    /\ UNCHANGED <<appId, phase, storage, state, sdk, sessional, resolved,
                   inv, send, more, nonces>>

\* widget.clearUser -> chatService.clearSession
clearUser ==
    /\ storage' = clearStorage(storage)
    /\ state' = reset(state)
    /\ userConfig' = NULL
    /\ emitted' = <<Event("session:cleared", NULL, NULL, FALSE, FALSE)>>
    /\ UNCHANGED <<appId, phase, sdk, sessional, resolved, inv, send, more, nonces>>

openWidget ==
    /\ state' = resetUnread([state EXCEPT !.isOpen = TRUE])
    /\ emitted' = <<>>
    /\ UNCHANGED <<appId, userConfig, phase, storage, sdk, sessional, resolved,
                   inv, send, more, nonces>>

closeWidget ==
    /\ state' = [state EXCEPT !.isOpen = FALSE]
    /\ emitted' = <<>>
    /\ UNCHANGED <<appId, userConfig, phase, storage, sdk, sessional, resolved,
                   inv, send, more, nonces>>

\* an agent marks a room resolved on the backend
AgentResolves(r) ==
    /\ r \notin resolved
    /\ resolved' = resolved \cup {r}
    /\ emitted' = <<>>
    /\ UNCHANGED <<appId, userConfig, phase, storage, state, sdk, sessional,
                   inv, send, more, nonces>>

\* ------------------------------------------------------------ ChatService
\* The code of one invocation between two suspension points is a function
\* on a context: the invocation's locals r, the objects it touches and the
\* events it emits.
Ctx(i) == [r |-> inv[i], state |-> state, storage |-> storage, sdk |-> sdk,
           nonces |-> nonces, ev |-> <<>>]

Commit(i, c) ==
    /\ inv' = [inv EXCEPT ![i] = c.r]
    /\ state' = c.state
    /\ storage' = c.storage
    /\ sdk' = c.sdk
    /\ nonces' = c.nonces
    /\ emitted' = c.ev
    /\ UNCHANGED <<appId, userConfig, phase, sessional, resolved, send, more>>

emit(c, e) == [c EXCEPT !.ev = Append(@, e)]

\* a call to the transport or the backend is issued and awaited
await(c, name, pc) == [c EXCEPT !.r.calls = @ \cup {name}, !.r.pc = pc]

\* the locals of fresh initiation are gone once the invocation has settled
dropLocals(r) ==
    [r EXCEPT !.nonce = 0, !.payload = {}, !.channelId = NULL,
              !.userData = NULL, !.roomId = NULL]

\* catch block of initiateChat: emit chat:error and rethrow
initiateChatCatch(c) ==
    [emit(c, Event("chat:error", NULL, NULL, FALSE, FALSE))
        EXCEPT !.r = [dropLocals(@) EXCEPT !.pc = "done",
                                           !.outcome = "rejected",
                                           !.errors = @ + 1]]

\* (variant: restoration failure falls through to fresh initiation)
restoreFailed_fallsThrough(c) ==
    [c EXCEPT !.r.restore = "null",
              !.r.calls = @ \cup {"getNonce"}, !.r.pc = "nonce"]

\* tryRestoreSession returned null for an existing session
restoreFailed(c) ==
    initiateChatCatch(
        [emit(c, Event("chat:error", NULL, NULL, FALSE, FALSE))
            EXCEPT !.r.restore = "null", !.r.errors = @ + 1])

\* stateManager.setState({ currentUser, roomId, isLoggedIn: true })
setLoggedIn(s, u, r) ==
    [s EXCEPT !.currentUser = u, !.roomId = r, !.isLoggedIn = TRUE]

\* (variant: the configured user is returned instead of the stored one)
restoreSucceeded_returnsConfig(c) ==
    LET u == c.r.sessUser
        r == c.r.sessRoom
        c1 == [c EXCEPT !.state = setLoggedIn(c.state, u, r)]
        c2 == emit(c1, Event("chat:restored", u, r, TRUE, TRUE))
        c3 == emit(c2, Event("chat:restored", u, r, FALSE, FALSE))
    IN [c3 EXCEPT !.r.pc = "done", !.r.restore = "ok",
                  !.r.outcome = "resolved", !.r.result = c.r.cfg]

\* tryRestoreSession restores, and initiateChat returns the restored user
restoreSucceeded(c) ==
    LET u == c.r.sessUser
        r == c.r.sessRoom
        c1 == [c EXCEPT !.state = setLoggedIn(c.state, u, r)]
        c2 == emit(c1, Event("chat:restored", u, r, TRUE, TRUE))
        c3 == emit(c2, Event("chat:restored", u, r, FALSE, FALSE))
    IN [c3 EXCEPT !.r.pc = "done", !.r.restore = "ok",
                  !.r.outcome = "resolved", !.r.result = u]

\* end of fresh initiation: chat:initiated, return userData
initiated(c) ==
    [emit(c, Event("chat:initiated", c.r.userData, c.r.roomId, FALSE, FALSE))
        EXCEPT !.r = [dropLocals(@) EXCEPT !.pc = "done",
                                           !.outcome = "resolved",
                                           !.result = c.r.userData]]

\* (variant: only the top-level flag of the options is read)
checkIfRoomResolved_topLevelOnly(room) ==
    IF room.nil THEN FALSE
    ELSE IF room.options.kind \in {"absent", "badstring"} THEN FALSE
    ELSE room.options.is_resolved

\* checkIfRoomResolved() on the room of the State Store: false without a
\* room or options and when JSON.parse of the options throws
checkIfRoomResolved(room) ==
    IF room.nil THEN FALSE
    ELSE IF room.options.kind \in {"absent", "badstring"} THEN FALSE
    ELSE room.options.is_resolved \/ room.options.extras_is_resolved

\* (variant: the session policy is looked up for every fetched room)
afterRoomLoaded_alwaysAsks(c) ==
    await([c EXCEPT !.r.isResolved = IF checkIfRoomResolved(c.state.room)
                                     THEN "yes" ELSE "no"],
          "getSessionStatus", "policy")

\* tryRestoreSession after updateRoomInfo returned a room
afterRoomLoaded(c) ==
    IF checkIfRoomResolved(c.state.room)
    THEN await([c EXCEPT !.r.isResolved = "yes"], "getSessionStatus", "policy")
    ELSE restoreSucceeded([c EXCEPT !.r.isResolved = "no"])

\* shouldCreateNewSession returned; tryRestoreSession decides
afterPolicy(c, isSessional) ==
    IF isSessional THEN restoreFailed(c) ELSE restoreSucceeded(c)

\* (variant: tryRestoreSession lets the exception of updateRoomInfo through)
roomInfoThrew_propagates(c) ==
    IF c.r.path \in {"restore", "fresh"} THEN initiateChatCatch(c)
    ELSE [c EXCEPT !.r.pc = "done", !.r.outcome = "rejected"]

\* updateRoomInfo threw: the catch block of the caller runs; a direct
\* caller (widget.updateRoomInfo) gets the rejection
roomInfoThrew(c) ==
    IF c.r.path = "restore" THEN restoreFailed(c)
    ELSE IF c.r.path = "fresh" THEN initiateChatCatch(c)
    ELSE [c EXCEPT !.r.pc = "done", !.r.outcome = "rejected"]

\* updateRoomInfo returned [room, messages]; hasRoom is false for [null, []]
roomInfoResult(c, hasRoom) ==
    IF c.r.path = "restore"
    THEN IF hasRoom THEN afterRoomLoaded(c) ELSE restoreFailed(c)
    ELSE IF c.r.path = "fresh" THEN initiated(c)
    ELSE [c EXCEPT !.r.pc = "done", !.r.outcome = "resolved",
                   !.r.result = IF hasRoom THEN "room" ELSE "empty",
                   !.r.listAfter = c.state.messagesList]

\* updateRoomInfo from the state update to its return, then the caller
finishRoomInfo(c) ==
    LET s1 == [c.state EXCEPT !.room = MergeRoom(c.state.room, c.r.room)]
        s2 == setMessages(s1, c.r.msgs)
        \* a direct caller gets [room, messages]; the other callers drop them
        c2 == [c EXCEPT !.state = s2, !.r.room = NullRoom,
                        !.r.msgs = IF c.r.path = "roominfo" THEN @ ELSE <<>>,
                        !.r.curUser = NULL]
    IN IF c.r.room.nil
       THEN \* room.avatarUrl of a missing room throws
            roomInfoThrew(c2)
       ELSE roomInfoResult([c2 EXCEPT !.state.subtitle = c.r.room.id], TRUE)

\* (variant: the room is fetched without the authentication check)
updateRoomInfo_noAuthCheck(c, roomId) ==
    IF roomId = NULL
    THEN roomInfoResult(c, FALSE)
    ELSE LET c1 == [c EXCEPT !.r.curUser = c.state.currentUser]
         IN await(c1, "getRoom", "room")

\* updateRoomInfo(roomId) up to the room fetch
updateRoomInfo(c, roomId) ==
    IF ~c.sdk.isLogin \/ roomId = NULL
    THEN \* returns [null, []]
         roomInfoResult(c, FALSE)
    ELSE LET c1 == [c EXCEPT !.r.curUser = c.state.currentUser]
         IN IF ~c.sdk.ready
            THEN finishRoomInfo([c1 EXCEPT !.r.room = NullRoom, !.r.msgs = <<>>])
            ELSE await(c1, "getRoom", "room")

\* (variant: a tuple without a room id is restored as well)
tryRestoreSession_skipsRoomCheck(c, app) ==
    LET session == getSession(c.storage, app)
    IN IF session.nil \/ ~Truthy(session.user) \/ ~Truthy(session.token)
       THEN restoreFailed(c)
       ELSE LET c1 == [c EXCEPT !.r.sessUser = session.user,
                                !.r.sessRoom = session.roomId]
            IN \* user.user.username of a malformed record throws, and so
               \* does setUserWithToken without an SDK; the catch returns null
               IF ~WellFormed(session.user) \/ ~c.sdk.ready
               THEN restoreFailed(c1)
               ELSE await(c1, "setUserWithToken", "auth")

\* tryRestoreSession up to the token authentication
tryRestoreSession(c, app) ==
    LET session == getSession(c.storage, app)
    IN IF session.nil \/ ~Truthy(session.user) \/ ~Truthy(session.token)
          \/ ~Truthy(session.roomId)
       THEN restoreFailed(c)
       ELSE LET c1 == [c EXCEPT !.r.sessUser = session.user,
                                !.r.sessRoom = session.roomId]
            IN \* user.user.username of a malformed record throws, and so
               \* does setUserWithToken without an SDK; the catch returns null
               IF ~WellFormed(session.user) \/ ~c.sdk.ready
               THEN restoreFailed(c1)
               ELSE await(c1, "setUserWithToken", "auth")

\* (variant: the restoration path is entered whatever the Session Store holds)
initiateChat_alwaysRestores(c, app, channelId, cfg) ==
    tryRestoreSession([c EXCEPT !.r = [IdleInv EXCEPT !.app = app, !.cfg = cfg,
                                                      !.path = "restore"]], app)

\* initiateChat(appId, channelId, userConfig) up to its first await
initiateChat(c, app, channelId, cfg) ==
    LET existingSession == getSession(c.storage, app)
        c0 == [c EXCEPT !.r = [IdleInv EXCEPT !.app = app, !.cfg = cfg]]
    IN IF ~existingSession.nil /\ Truthy(existingSession.user)
          /\ Truthy(existingSession.token) /\ Truthy(existingSession.roomId)
       THEN tryRestoreSession([c0 EXCEPT !.r.path = "restore"], app)
       ELSE LET c1 == [c0 EXCEPT !.r.path = "fresh", !.r.channelId = channelId]
            IN IF ~c.sdk.ready THEN initiateChatCatch(c1)
               ELSE await(c1, "getNonce", "nonce")

\* what sdk.setUserWithIdentityToken leaves in the SDK on success
sdkLogin(u) == [ready |-> TRUE, isLogin |-> TRUE, token |-> TokenOf(u),
                userData |-> u]

\* sdkService.getUserToken()
getUserToken(k) == IF k.ready /\ Truthy(k.token) THEN k.token ELSE NULL

\* (variant: the wait and the room fetch follow a rejected authentication)
authReturned_ignoresFailure(c, ok) ==
    await(IF ok THEN [c EXCEPT !.sdk = sdkLogin(c.r.sessUser)] ELSE c,
          "setTimeout", "wait")

\* tryRestoreSession: setUserWithToken(user) settled
authReturned(c, ok) ==
    IF ok
    THEN await([c EXCEPT !.sdk = sdkLogin(c.r.sessUser)], "setTimeout", "wait")
    ELSE restoreFailed(c)

\* tryRestoreSession: the SDK_CONFIG_POLL_INTERVAL wait is over
waitElapsed(c) == updateRoomInfo(c, c.r.sessRoom)

\* updateRoomInfo: getRoom settled with a room, with nothing, or threw
roomReturned(c, kind, room, comments, hasLast) ==
    IF kind = "throw"
    THEN roomInfoThrew(c)
    ELSE LET rm == IF kind = "room" THEN room ELSE NullRoom
             ms == IF kind = "room" THEN comments ELSE <<>>
             c1 == [c EXCEPT !.r.room = rm, !.r.msgs = ms,
                             !.r.fetched = (kind = "room"),
                             !.r.flag = rm.options]
         IN IF Len(ms) > 0 /\ hasLast
            THEN await(c1, "loadMore", "prev")
            ELSE finishRoomInfo(c1)

\* updateRoomInfo: getPreviousMessagesById settled ([] when loadMore failed)
prevReturned(c, ok, previous) ==
    finishRoomInfo([c EXCEPT !.r.msgs = @ \o (IF ok THEN previous ELSE <<>>)])

\* (variant: a failed lookup counts as sessional)
shouldCreateNewSession_failClosed(ok, is_sessional) == IF ok THEN is_sessional ELSE TRUE

\* shouldCreateNewSession: response.data?.is_sessional || false, false on error
shouldCreateNewSession(ok, is_sessional) == IF ok THEN is_sessional ELSE FALSE

policyReturned(c, ok, is_sessional) ==
    afterPolicy([c EXCEPT !.r.policy = IF ~ok THEN "failed"
                                       ELSE IF is_sessional THEN "sessional"
                                       ELSE "notsessional"],
                shouldCreateNewSession(ok, is_sessional))

\* (variant: channel_id is always a key of the body, null when none is given)
requestData_alwaysChannel(channelId) ==
    {"app_id", "user_id", "name", "avatar", "sdk_user_extras",
     "user_properties", "nonce", "channel_id"}

\* keys of the create-session request body
requestData(channelId) ==
    {"app_id", "user_id", "name", "avatar", "sdk_user_extras",
     "user_properties", "nonce"}
    \cup (IF channelId # NULL THEN {"channel_id"} ELSE {})

\* (variant: the nonce handed out before this one is sent)
nonceReturned_sendsPrevious(c, ok) ==
    IF ok
    THEN await([c EXCEPT !.nonces = @ + 1, !.r.nonce = c.nonces,
                         !.r.payload = requestData(c.r.channelId)],
               "apiInitiateChat", "create")
    ELSE initiateChatCatch(c)

\* initiateChat: getNonce settled
nonceReturned(c, ok) ==
    IF ok
    THEN await([c EXCEPT !.nonces = @ + 1, !.r.nonce = c.nonces + 1,
                         !.r.payload = requestData(c.r.channelId)],
               "apiInitiateChat", "create")
    ELSE initiateChatCatch(c)

\* (variant: a failed create-session request leaves the invocation pending)
createReturned_staysPending(c, ok, room_id) ==
    IF ok /\ c.sdk.ready
    THEN await([c EXCEPT !.r.roomId = room_id], "verifyIdentityToken", "verify")
    ELSE [c EXCEPT !.r.pc = "pending"]

\* initiateChat: the create-session request settled
createReturned(c, ok, room_id) ==
    IF ok /\ c.sdk.ready
    THEN await([c EXCEPT !.r.roomId = room_id], "verifyIdentityToken", "verify")
    ELSE initiateChatCatch(c)

\* initiateChat: verifyIdentityToken settled
verifyReturned(c, ok) ==
    IF ok /\ c.sdk.ready
    THEN await([c EXCEPT !.r.userData = c.r.cfg], "setUserWithToken", "setuser")
    ELSE initiateChatCatch(c)

\* initiateChat: setUserWithToken settled; save, update state, load the room
setUserReturned(c, ok, written) ==
    IF ~ok THEN initiateChatCatch(c)
    ELSE LET k == sdkLogin(c.r.userData)
             c1 == [c EXCEPT
                      !.sdk = k,
                      !.storage = saveSessionWrites(c.storage, c.r.app,
                                     c.r.userData, getUserToken(k), c.r.roomId,
                                     written),
                      !.r.calls = @ \cup {"saveSession"},
                      !.r.saveFailed = (written # 5),
                      !.state = setLoggedIn(c.state, c.r.userData, c.r.roomId)]
         IN updateRoomInfo(c1, c.r.roomId)

\* widget.initiateChat: openWidget() once chatService.initiateChat resolved
widgetInitiateChat(c) ==
    IF c.r.path \in {"fresh", "restore"} /\ c.r.outcome = "resolved"
    THEN [c EXCEPT !.state = resetUnread([c.state EXCEPT !.isOpen = TRUE])]
    ELSE c

ChannelIds == {NULL, "ch1"}
FetchedComments == {<<>>, <<S1>>}
PreviousPages == {<<S1>>, <<O1>>}

\* what the transport returns for room r now
FetchedOptions(r) == IF r \in resolved THEN ResolvedOptions ELSE OpenOptions

StartInitiateChat(i) ==
    /\ inv[i].pc \in {"idle", "done"}
    /\ IF userConfig = NULL
       THEN /\ inv' = [inv EXCEPT ![i] = [IdleInv EXCEPT !.pc = "done",
                                            !.path = "config",
                                            !.outcome = "rejected"]]
            /\ emitted' = <<>>
            /\ UNCHANGED <<appId, userConfig, phase, storage, state, sdk,
                           sessional, resolved, send, more, nonces>>
       ELSE \E ch \in ChannelIds :
               Commit(i, widgetInitiateChat(
                            initiateChat(Ctx(i), appId, ch, userConfig)))

AuthReturns(i) ==
    /\ inv[i].pc = "auth"
    /\ \E ok \in BOOLEAN : Commit(i, widgetInitiateChat(authReturned(Ctx(i), ok)))

WaitElapses(i) ==
    /\ inv[i].pc = "wait"
    /\ Commit(i, widgetInitiateChat(waitElapsed(Ctx(i))))

RoomReturns(i) ==
    /\ inv[i].pc = "room"
    /\ LET r == IF inv[i].path = "restore" THEN inv[i].sessRoom ELSE inv[i].roomId
       IN \/ \E o \in FetchedOptions(r), ms \in FetchedComments, hasLast \in BOOLEAN :
               Commit(i, widgetInitiateChat(
                           roomReturned(Ctx(i), "room", RoomObj(r, o), ms, hasLast)))
          \/ \E kind \in {"nothing", "throw"} :
               Commit(i, widgetInitiateChat(
                           roomReturned(Ctx(i), kind, NullRoom, <<>>, FALSE)))

PrevReturns(i) ==
    /\ inv[i].pc = "prev"
    /\ \/ \E prev \in PreviousPages :
              /\ Len(inv[i].msgs) + Len(prev) <= MaxMsgs
              /\ Commit(i, widgetInitiateChat(prevReturned(Ctx(i), TRUE, prev)))
       \/ Commit(i, widgetInitiateChat(prevReturned(Ctx(i), FALSE, <<>>)))

PolicyReturns(i) ==
    /\ inv[i].pc = "policy"
    /\ \E ok \in BOOLEAN :
         Commit(i, widgetInitiateChat(
                     policyReturned(Ctx(i), ok, sessional)))

NonceReturns(i) ==
    /\ inv[i].pc = "nonce"
    /\ \E ok \in BOOLEAN :
         /\ ok => nonces < MaxNonce
         /\ Commit(i, widgetInitiateChat(nonceReturned(Ctx(i), ok)))

CreateReturns(i) ==
    /\ inv[i].pc = "create"
    /\ \E ok \in BOOLEAN, r \in Rooms :
         Commit(i, widgetInitiateChat(createReturned(Ctx(i), ok, r)))

VerifyReturns(i) ==
    /\ inv[i].pc = "verify"
    /\ \E ok \in BOOLEAN : Commit(i, widgetInitiateChat(verifyReturned(Ctx(i), ok)))

SetUserReturns(i) ==
    /\ inv[i].pc = "setuser"
    /\ \E ok \in BOOLEAN, written \in SaveOutcomes :
         Commit(i, widgetInitiateChat(setUserReturned(Ctx(i), ok, written)))

\* handleChatButtonClick: the button exists once initialize() created the UI
ChatButtonClick(i) ==
    /\ phase = "ready" /\ sdk.ready
    /\ IF state.isLoggedIn THEN openWidget ELSE StartInitiateChat(i)

Next ==
    \/ Initialize
    \/ PageLoad
    \/ \E u \in Users : setUser(u)
    \/ clearUser
    \/ openWidget
    \/ closeWidget
    \/ \E r \in ResolvableRooms : AgentResolves(r)
    \/ \E i \in DOMAIN inv : StartInitiateChat(i)
    \/ \E i \in DOMAIN inv : ChatButtonClick(i)
    \/ \E i \in DOMAIN inv : AuthReturns(i)
    \/ \E i \in DOMAIN inv : WaitElapses(i)
    \/ \E i \in DOMAIN inv : RoomReturns(i)
    \/ \E i \in DOMAIN inv : PrevReturns(i)
    \/ \E i \in DOMAIN inv : PolicyReturns(i)
    \/ \E i \in DOMAIN inv : NonceReturns(i)
    \/ \E i \in DOMAIN inv : CreateReturns(i)
    \/ \E i \in DOMAIN inv : VerifyReturns(i)
    \/ \E i \in DOMAIN inv : SetUserReturns(i)

Spec == Init /\ [][Next]_vars

\* --------------------------------------------------- message send / receive
Texts == {"", "   ", "hi"}
trim(t) == IF t = "   " THEN "" ELSE t

\* ChatService.sendMessage(text) up to the transport send
sendMessage(s, k, text) ==
    IF ~Truthy(s.roomId)
    THEN [IdleSend EXCEPT !.pc = "done", !.text = text, !.outcome = "rejected",
                          !.error = "No active room"]
    ELSE IF text = "" \/ trim(text) = ""
    THEN [IdleSend EXCEPT !.pc = "done", !.text = text, !.roomId = s.roomId,
                          !.outcome = "rejected",
                          !.error = "Message text cannot be empty"]
    ELSE IF ~k.ready
    THEN [IdleSend EXCEPT !.pc = "done", !.text = text, !.roomId = s.roomId,
                          !.outcome = "rejected", !.error = "SDK not initialized"]
    ELSE [IdleSend EXCEPT !.pc = "sending", !.text = text, !.roomId = s.roomId,
                          !.sends = 1]

SendMessage(text) ==
    /\ send.pc \in {"idle", "done"}
    /\ send' = sendMessage(state, sdk, text)
    /\ emitted' = <<>>
    /\ UNCHANGED <<appId, userConfig, phase, storage, state, sdk, sessional,
                   resolved, inv, more, nonces>>

\* (variant: message:sent is emitted for a failed send as well)
SendReturns_emitsOnFailure ==
    /\ send.pc = "sending"
    /\ \/ \E m \in {S1, S2} :
            /\ Len(state.messagesList) < MaxMsgs
            /\ state' = addMessage(state, m)
            /\ send' = [send EXCEPT !.pc = "done", !.outcome = "resolved"]
            /\ emitted' = <<MsgEvent("message:sent", m)>>
       \/ /\ send' = [send EXCEPT !.pc = "done", !.outcome = "rejected",
                                  !.error = "transport"]
          /\ emitted' = <<MsgEvent("message:sent", NoMsg)>>
          /\ UNCHANGED state
    /\ UNCHANGED <<appId, userConfig, phase, storage, sdk, sessional,
                   resolved, inv, more, nonces>>

\* the transport send settled
SendReturns ==
    /\ send.pc = "sending"
    /\ \/ \E m \in {S1, S2} :
            /\ Len(state.messagesList) < MaxMsgs
            /\ state' = addMessage(state, m)
            /\ send' = [send EXCEPT !.pc = "done", !.outcome = "resolved"]
            /\ emitted' = <<MsgEvent("message:sent", m)>>
       \/ /\ send' = [send EXCEPT !.pc = "done", !.outcome = "rejected",
                                  !.error = "transport"]
          /\ emitted' = <<>>
          /\ UNCHANGED state
    /\ UNCHANGED <<appId, userConfig, phase, storage, sdk, sessional,
                   resolved, inv, more, nonces>>

Batches == {b \in UNION {[1..n -> MsgPool] : n \in 1..MaxBatch} : TRUE}

RECURSIVE handleNewMessagesLoop(_, _, _)
handleNewMessagesLoop(s, isOpen, ms) ==
    IF ms = <<>> THEN s
    ELSE LET s1 == addMessage(s, Head(ms))
             s2 == IF ~isOpen THEN incrementUnread(s1) ELSE s1
         IN handleNewMessagesLoop(s2, isOpen, Tail(ms))

\* (variant: the unread counter also counts while the widget is open)
handleNewMessages_countsWhenOpen(s, ms) == handleNewMessagesLoop(s, FALSE, ms)

handleNewMessages(s, ms) == handleNewMessagesLoop(s, s.isOpen, ms)

\* the sdk:newMessages event
HandleNewMessages(batch) ==
    /\ sdk.ready
    /\ Len(state.messagesList) + Len(batch) <= MaxMsgs
    /\ state.unreadCount + Len(batch) <= MaxUnread
    /\ state' = handleNewMessages(state, batch)
    /\ emitted' = [k \in 1..Len(batch) |-> MsgEvent("message:received", batch[k])]
    /\ UNCHANGED <<appId, userConfig, phase, storage, sdk, sessional,
                   resolved, inv, send, more, nonces>>

\* ChatService.loadMoreMessages up to the transport call
LoadMoreMessages ==
    /\ more = "idle"
    /\ Len(state.messagesList) > 0
    /\ more' = IF sdk.ready THEN "loading" ELSE "idle"
    /\ emitted' = <<>>
    /\ UNCHANGED <<appId, userConfig, phase, storage, state, sdk, sessional,
                   resolved, inv, send, nonces>>

\* sdk.loadMore settled
LoadMoreReturns ==
    /\ more = "loading"
    /\ more' = "idle"
    /\ \/ \E older \in Batches :
            /\ Len(state.messagesList) + Len(older) <= MaxMsgs
            /\ state' = prependMessages(state, older)
       \/ UNCHANGED state
    /\ emitted' = <<>>
    /\ UNCHANGED <<appId, userConfig, phase, storage, sdk, sessional,
                   resolved, inv, send, nonces>>

\* the State Store after u1 started a chat in the open, empty room n1
LoggedInState ==
    [InitialState EXCEPT !.currentUser = "u1", !.roomId = "n1",
                         !.isLoggedIn = TRUE, !.isOpen = TRUE,
                         !.room = RoomObj("n1", OptObj(FALSE, FALSE)),
                         !.subtitle = "n1"]

\* messaging starts on an initialized page, before or after a chat started
MsgInit ==
    /\ appId = "appA"
    /\ phase = "ready"
    /\ sessional = FALSE
    /\ resolved = {}
    /\ inv = [i \in Inv |-> IdleInv]
    /\ send = IdleSend
    /\ more = "idle"
    /\ emitted = <<>>
    /\ \/ /\ userConfig = NULL
          /\ storage = EmptyStorage
          /\ state = InitialState
          /\ sdk \in {NoSDK, [NoSDK EXCEPT !.ready = TRUE]}
          /\ nonces = 0
       \/ /\ userConfig = "u1"
          /\ storage = saveSession(EmptyStorage, "appA", "u1", TokenOf("u1"), "n1")
          /\ state = LoggedInState
          /\ sdk = sdkLogin("u1")
          /\ nonces = 1

NextMsg ==
    \/ \E t \in Texts : SendMessage(t)
    \/ SendReturns
    \/ \E b \in Batches : HandleNewMessages(b)
    \/ LoadMoreMessages
    \/ LoadMoreReturns
    \/ clearUser
    \/ openWidget
    \/ closeWidget

SpecMsg == MsgInit /\ [][NextMsg]_vars

\* ------------------------------------------- overlapping initiateChat
\* two invocations, one per slot: the second initiateChat can start while
\* the first one is suspended (two clicks on the chat button, or two calls
\* of widget.initiateChat)
Overlapping == {1, 2}

StartOverlapping(i) ==
    /\ inv[i].pc = "idle"
    /\ \/ StartInitiateChat(i)
       \/ ChatButtonClick(i)

\* an initialized page with a configured user and no stored session
ConcInit ==
    /\ appId = "appA"
    /\ userConfig = "u1"
    /\ phase = "ready"
    /\ storage = EmptyStorage
    /\ state = InitialState
    /\ sdk = [NoSDK EXCEPT !.ready = TRUE]
    /\ sessional \in BOOLEAN
    /\ resolved = {}
    /\ inv = [i \in Overlapping |-> IdleInv]
    /\ send = IdleSend
    /\ more = "idle"
    /\ nonces = 0
    /\ emitted = <<>>

NextConc ==
    \/ \E i \in DOMAIN inv : StartOverlapping(i)
    \/ \E r \in ResolvableRooms : AgentResolves(r)
    \/ \E i \in DOMAIN inv : AuthReturns(i)
    \/ \E i \in DOMAIN inv : WaitElapses(i)
    \/ \E i \in DOMAIN inv : RoomReturns(i)
    \/ \E i \in DOMAIN inv : PrevReturns(i)
    \/ \E i \in DOMAIN inv : PolicyReturns(i)
    \/ \E i \in DOMAIN inv : NonceReturns(i)
    \/ \E i \in DOMAIN inv : CreateReturns(i)
    \/ \E i \in DOMAIN inv : VerifyReturns(i)
    \/ \E i \in DOMAIN inv : SetUserReturns(i)

SpecConc == ConcInit /\ [][NextConc]_vars

\* a call to the transport or the backend that invocation i awaits settles
Completes(i) ==
    \/ AuthReturns(i) \/ WaitElapses(i) \/ RoomReturns(i) \/ PrevReturns(i)
    \/ PolicyReturns(i) \/ NonceReturns(i) \/ CreateReturns(i)
    \/ VerifyReturns(i) \/ SetUserReturns(i)

\* an initialized page with a configured user and an empty Session Store
LiveInit ==
    /\ appId = "appA"
    /\ userConfig = "u1"
    /\ phase = "ready"
    /\ storage = EmptyStorage
    /\ state = InitialState
    /\ sdk = [NoSDK EXCEPT !.ready = TRUE]
    /\ sessional \in BOOLEAN
    /\ resolved = {}
    /\ inv = [i \in Inv |-> IdleInv]
    /\ send = IdleSend
    /\ more = "idle"
    /\ nonces = 0
    /\ emitted = <<>>


\* ------------------------------------------------ direct updateRoomInfo
\* widget.updateRoomInfo(roomId): the caller refreshes room and messages
UpdateRoomInfo(i, roomId) ==
    /\ inv[i].pc \in {"idle", "done"}
    /\ LET last == inv[i]
           again == last.path = "roominfo" /\ last.outcome = "resolved"
                    /\ last.result = "room" /\ last.roomId = roomId
           r0 == [IdleInv EXCEPT
                    !.path = "roominfo", !.roomId = roomId,
                    !.before = IF again
                               THEN [has |-> TRUE, fetch |-> last.msgs,
                                     list |-> last.listAfter]
                               ELSE NoBefore]
       IN Commit(i, updateRoomInfo([Ctx(i) EXCEPT !.r = r0], roomId))

NextRoom ==
    \/ \E i \in DOMAIN inv, r \in Rooms \cup {NULL} : UpdateRoomInfo(i, r)
    \/ \E i \in DOMAIN inv : RoomReturns(i)
    \/ \E i \in DOMAIN inv : PrevReturns(i)
    \/ \E b \in Batches : HandleNewMessages(b)
    \/ clearUser

SpecRoom == MsgInit /\ [][NextRoom]_vars

\* ------------------------------------------------------------ APIService
Endpoints == {"initiate_chat", "get_session"}
Statuses == {200, 400, 404, 500, 502}
Bodies ==
    {Body("text", FALSE, NULL), Body("null", FALSE, NULL),
     Body("object", FALSE, NULL), Body("object", TRUE, NULL),
     Body("object", TRUE, "m1")}

\* response.ok
ResponseOk(status) == status \in 200..299

\* the generic description of each endpoint
Fallback(endpoint) ==
    IF endpoint = "initiate_chat" THEN "Failed to initiate chat"
    ELSE "Failed to get session status"

\* error.errors?.message of a parsed body
errorsMessage(body) == IF body.hasErrors THEN body.message ELSE NULL

\* the code after fetch() returned a response: response.json() rejects with
\* a SyntaxError for a body that is no JSON; error.errors of null throws a
\* TypeError; otherwise the message is errors.message or the fallback
gatewayResult(endpoint, response) ==
    IF response.body.kind = "text"
    THEN [outcome |-> "rejected", message |-> "SyntaxError"]
    ELSE IF ResponseOk(response.status)
    THEN [outcome |-> "resolved", message |-> NULL]
    ELSE IF response.body.kind = "null"
    THEN [outcome |-> "rejected", message |-> "TypeError"]
    ELSE [outcome |-> "rejected",
          message |-> IF Truthy(errorsMessage(response.body))
                      THEN errorsMessage(response.body)
                      ELSE Fallback(endpoint)]

\* apiService.initiateChat(params) / getSessionStatus(appId): fetch is issued
ApiCall(i, endpoint) ==
    /\ inv[i].pc \in {"idle", "done"}
    /\ inv' = [inv EXCEPT ![i] = [IdleInv EXCEPT !.pc = "fetch", !.path = "api",
                                                 !.endpoint = endpoint]]
    /\ emitted' = <<>>
    /\ UNCHANGED <<appId, userConfig, phase, storage, state, sdk, sessional,
                   resolved, send, more, nonces>>

\* fetch settles: with a response, or rejected when the network failed
FetchReturns(i) ==
    /\ inv[i].pc = "fetch"
    /\ \/ \E st \in Statuses, b \in Bodies :
            inv' = [inv EXCEPT ![i].pc = "json",
                               ![i].response = [status |-> st, body |-> b]]
       \/ inv' = [inv EXCEPT ![i].pc = "done", ![i].outcome = "rejected",
                             ![i].message = "NetworkError"]
    /\ emitted' = <<>>
    /\ UNCHANGED <<appId, userConfig, phase, storage, state, sdk, sessional,
                   resolved, send, more, nonces>>

\* response.json() settles and the call returns or throws
JsonReturns(i) ==
    /\ inv[i].pc = "json"
    /\ LET res == gatewayResult(inv[i].endpoint, inv[i].response)
       IN inv' = [inv EXCEPT ![i].pc = "done", ![i].outcome = res.outcome,
                             ![i].message = res.message]
    /\ emitted' = <<>>
    /\ UNCHANGED <<appId, userConfig, phase, storage, state, sdk, sessional,
                   resolved, send, more, nonces>>

NextGateway ==
    \/ \E i \in Inv, e \in Endpoints : ApiCall(i, e)
    \/ \E i \in Inv : FetchReturns(i)
    \/ \E i \in Inv : JsonReturns(i)

SpecGateway == LiveInit /\ [][NextGateway]_vars

\* ------------------------------------------- checkIfRoomResolved, directly
\* every form of room.options: none, an object, a serialized object, a
\* string that JSON.parse rejects
Encodings ==
    {OptAbsent, OptBad}
    \cup {OptObj(a, b) : a, b \in BOOLEAN} \cup {OptStr(a, b) : a, b \in BOOLEAN}

\* getRoom settles with a room whose options have any of these forms
RoomReturnsEncoded(i) ==
    /\ inv[i].pc = "room" /\ inv[i].path = "roominfo"
    /\ \E o \in Encodings, ms \in FetchedComments, hasLast \in BOOLEAN :
         Commit(i, roomReturned(Ctx(i), "room", RoomObj(inv[i].roomId, o),
                                ms, hasLast))

\* chatService.checkIfRoomResolved(): reads the room of the State Store and
\* returns a boolean; fetched and flag record the room it read
CheckIfRoomResolved(i) ==
    /\ inv[i].pc \in {"idle", "done"}
    /\ inv' = [inv EXCEPT ![i] =
                 [IdleInv EXCEPT
                    !.pc = "done", !.path = "check", !.outcome = "resolved",
                    !.fetched = ~state.room.nil,
                    !.flag = state.room.options,
                    !.isResolved = IF checkIfRoomResolved(state.room)
                                   THEN "yes" ELSE "no"]]
    /\ emitted' = <<>>
    /\ UNCHANGED <<appId, userConfig, phase, storage, state, sdk, sessional,
                   resolved, send, more, nonces>>

NextResolved ==
    \/ \E i \in DOMAIN inv, r \in Rooms : UpdateRoomInfo(i, r)
    \/ \E i \in DOMAIN inv : RoomReturnsEncoded(i)
    \/ \E i \in DOMAIN inv : RoomReturns(i)
    \/ \E i \in DOMAIN inv : PrevReturns(i)
    \/ \E i \in DOMAIN inv : CheckIfRoomResolved(i)
    \/ clearUser

SpecResolved == MsgInit /\ [][NextResolved]_vars

\* --------------------------------------- a page that found a stored session
\* the complete tuples an earlier page life of this application left behind:
\* a well-formed user record or a malformed one
StoredTuples ==
    {saveSession(EmptyStorage, "appA", u, TokenOf("u1"), "n1") :
        u \in {"u1", Malformed}}

\* the widget after initialize() on such a page: restoreSession() has copied
\* the raw keys into the State Store, the user configuration and the SDK
RestoreInit ==
    /\ appId = "appA"
    /\ phase = "ready"
    /\ storage \in StoredTuples
    /\ state = restoreSession(storage, InitialState)
    /\ userConfig = JSONparse(storage.lastUserData)
    /\ sdk \in {[ready |-> TRUE, isLogin |-> TRUE,
                 token |-> storage.lastUserToken,
                 userData |-> JSONparse(storage.lastUserData)],
                [NoSDK EXCEPT !.ready = TRUE]}
    /\ sessional \in BOOLEAN
    /\ resolved = {}
    /\ inv = [i \in Inv |-> IdleInv]
    /\ send = IdleSend
    /\ more = "idle"
    /\ nonces = 0
    /\ emitted = <<>>

NextRestore ==
    \/ \E u \in Users : setUser(u)
    \/ closeWidget
    \/ \E r \in ResolvableRooms : AgentResolves(r)
    \/ \E i \in DOMAIN inv : StartInitiateChat(i)
    \/ \E i \in DOMAIN inv : ChatButtonClick(i)
    \/ \E i \in DOMAIN inv : AuthReturns(i)
    \/ \E i \in DOMAIN inv : WaitElapses(i)
    \/ \E i \in DOMAIN inv : RoomReturns(i)
    \/ \E i \in DOMAIN inv : PrevReturns(i)
    \/ \E i \in DOMAIN inv : PolicyReturns(i)

SpecRestore == RestoreInit /\ [][NextRestore]_vars

\* ------------------------------------------- initiation when calls settle
\* one initiation, started by the page or by the chat button, on a page
\* with an empty Session Store or with a stored session
NextLive ==
    \/ \E i \in Inv : StartOverlapping(i)
    \/ \E r \in ResolvableRooms : AgentResolves(r)
    \/ \E i \in Inv : Completes(i)

\* every promise of the transport and the backend settles and the timer of
\* the readiness wait fires
SpecFair ==
    /\ LiveInit \/ RestoreInit
    /\ [][NextLive]_vars
    /\ \A i \in Inv : WF_vars(Completes(i))

\* ------------------------- a page that opens the widget on a new message
\* handleNewMessages when the page's handler of message:received (the
\* onMessageReceived callback or a listener on the emitter) calls
\* widget.openWidget() for the k-th message of ms: emit runs the handler
\* inside the loop, which keeps the isOpen it read before the loop
RECURSIVE handleNewMessagesOpening(_, _, _, _)
handleNewMessagesOpening(s, isOpen, ms, k) ==
    IF ms = <<>> THEN s
    ELSE LET s1 == addMessage(s, Head(ms))
             s2 == IF ~isOpen THEN incrementUnread(s1) ELSE s1
             s3 == IF k = 1 THEN resetUnread([s2 EXCEPT !.isOpen = TRUE]) ELSE s2
         IN handleNewMessagesOpening(s3, isOpen, Tail(ms), k - 1)

\* the sdk:newMessages event on such a page
HandleNewMessagesOpening(batch, k) ==
    /\ sdk.ready
    /\ Len(state.messagesList) + Len(batch) <= MaxMsgs
    /\ state.unreadCount + Len(batch) <= MaxUnread
    /\ state' = handleNewMessagesOpening(state, state.isOpen, batch, k)
    /\ emitted' = [j \in 1..Len(batch) |-> MsgEvent("message:received", batch[j])]
    /\ UNCHANGED <<appId, userConfig, phase, storage, sdk, sessional,
                   resolved, inv, send, more, nonces>>

NextOpen ==
    \/ \E b \in Batches : HandleNewMessages(b)
    \/ \E b \in Batches, k \in 1..MaxBatch :
          k <= Len(b) /\ HandleNewMessagesOpening(b, k)
    \/ openWidget
    \/ closeWidget
    \/ clearUser

SpecOpen == MsgInit /\ [][NextOpen]_vars

\* ------------------------------------------- StorageService, directly
\* the arguments saveSession can get: initiateChat passes getUserToken(),
\* which is null without an SDK token, and Number(customer_room.room_id),
\* which is falsy (0, NaN) for a response without a usable room id; NULL
\* stands for these
SessionTokens == Tokens \cup {NULL}
RoomIds == Rooms \cup {NULL}

StoreInit ==
    /\ appId = "appA"
    /\ userConfig = NULL
    /\ phase = "ready"
    /\ storage \in Leftover
    /\ state = InitialState
    /\ sdk = [NoSDK EXCEPT !.ready = TRUE]
    /\ sessional = FALSE
    /\ resolved = {}
    /\ inv = [i \in Inv |-> IdleInv]
    /\ send = IdleSend
    /\ more = "idle"
    /\ nonces = 0
    /\ emitted = <<>>

\* storageService.saveSession(appId, user, token, roomId)
SaveSession(i, app, user, token, roomId) ==
    /\ inv[i].pc \in {"idle", "done"}
    /\ \E written \in SaveOutcomes :
         /\ storage' = saveSessionWrites(storage, app, user, token, roomId, written)
         /\ inv' = [inv EXCEPT ![i] =
                      [IdleInv EXCEPT
                         !.pc = "saved", !.path = "store", !.app = app,
                         !.userData = user, !.token = token, !.roomId = roomId,
                         !.calls = {"saveSession"},
                         !.saveFailed = (written # 5)]]
    /\ emitted' = <<>>
    /\ UNCHANGED <<appId, userConfig, phase, state, sdk, sessional, resolved,
                   send, more, nonces>>

\* the next storageService.getSession(appId), for the application saved
GetSession(i) ==
    /\ inv[i].pc = "saved"
    /\ inv' = [inv EXCEPT ![i].pc = "done", ![i].outcome = "resolved",
                          ![i].session = getSession(storage, inv[i].app)]
    /\ emitted' = <<>>
    /\ UNCHANGED <<appId, userConfig, phase, storage, state, sdk, sessional,
                   resolved, send, more, nonces>>

NextStore ==
    \/ \E i \in Inv, app \in Apps, user \in Users, token \in SessionTokens,
          roomId \in RoomIds : SaveSession(i, app, user, token, roomId)
    \/ \E i \in Inv : GetSession(i)
    \/ (\A i \in Inv : inv[i].pc # "saved") /\ clearUser

SpecStore == StoreInit /\ [][NextStore]_vars

\* ------------------------------------------------ constructing the widget
\* the configurations a page passes to the constructor: with and without
\* appId
Configs == {[appId |-> NULL], [appId |-> "appA"]}

\* (variant: a configuration without appId is accepted)
validateConfig_acceptsAll(config) == [threw |-> FALSE, appId |-> config.appId]

\* validateConfig(config): throws without appId, else returns the
\* configuration with its defaults
validateConfig(config) ==
    IF ~Truthy(config.appId) THEN [threw |-> TRUE, appId |-> NULL]
    ELSE [threw |-> FALSE, appId |-> config.appId]

\* the page before new QiscusMultichannelWidget(config): no widget, no
\* service and no SDK exist, localStorage holds what earlier pages left
ConfigInit ==
    /\ appId = NULL
    /\ userConfig = NULL
    /\ phase = "page"
    /\ storage \in Leftover
    /\ state = InitialState
    /\ sdk = NoSDK
    /\ sessional = FALSE
    /\ resolved = {}
    /\ inv = [i \in Inv |-> IdleInv]
    /\ send = IdleSend
    /\ more = "idle"
    /\ nonces = 0
    /\ emitted = <<>>

\* constructor: validateConfig first; then the event emitter, the services
\* and the handlers are created and initialize() starts loading the SDK
Construct(config) ==
    /\ phase = "page"
    /\ LET v == validateConfig(config)
       IN IF v.threw
          THEN /\ phase' = "threw"
               /\ UNCHANGED <<appId, userConfig, state, sdk>>
          ELSE /\ phase' = "constructed"
               /\ appId' = v.appId
               /\ userConfig' = NULL
               /\ state' = InitialState
               /\ sdk' = NoSDK
    /\ emitted' = <<>>
    /\ UNCHANGED <<storage, sessional, resolved, inv, send, more, nonces>>

\* the methods of the widget exist once the constructor has returned
Constructed == phase \in {"constructed", "ready"}

NextConfig ==
    \/ \E config \in Configs : Construct(config)
    \/ Constructed /\ Initialize
    \/ Constructed /\ \E u \in Users : setUser(u)
    \/ Constructed /\ clearUser
    \/ Constructed /\ \E i \in DOMAIN inv : StartInitiateChat(i)
    \/ Constructed /\ \E i \in DOMAIN inv : Completes(i)

SpecConfig == ConfigInit /\ [][NextConfig]_vars

\* ================================================================ claims
MessagesList == state.messagesList
StoredSession == getSession(storage, appId)
EventNames == {emitted[k].name : k \in 1..Len(emitted)}

\* the resolution flag of the data model, read off the fetched room's
\* options: is_resolved or extras.is_resolved is true in options that parse
FlagResolved(o) ==
    o.kind \in {"object", "string"} /\ (o.is_resolved \/ o.extras_is_resolved)

C2_SessionalFallsThrough ==
    \A i \in DOMAIN inv :
        inv[i].policy = "sessional" => "getNonce" \in inv[i].calls

\* C3: with a complete tuple, successful authentication and a fetched room,
\* tryRestoreSession returns the stored user and room unless the room is
\* resolved and the lookup reports sessional; a failed lookup restores,
\* raises nothing and emits no chat:error.
C3_DecisionTable ==
    \A i \in DOMAIN inv :
        (inv[i].path = "restore" /\ inv[i].fetched /\ inv[i].pc = "done") =>
            /\ inv[i].restore = "null"
                 <=> (FlagResolved(inv[i].flag) /\ inv[i].policy = "sessional")
            /\ inv[i].restore = "ok"
                 <=> ~(FlagResolved(inv[i].flag) /\ inv[i].policy = "sessional")
            /\ inv[i].restore = "ok" =>
                 /\ inv[i].result = inv[i].sessUser
                 /\ inv[i].outcome = "resolved"
            /\ inv[i].policy = "failed" =>
                 /\ inv[i].restore = "ok"
                 /\ inv[i].errors = 0
                 /\ "chat:error" \notin EventNames

\* C3 witness: the room was resolved, the policy lookup failed, and the
\* session was restored.
C3_Witness ==
    \E i \in DOMAIN inv :
        /\ inv[i].path = "restore" /\ inv[i].fetched
        /\ FlagResolved(inv[i].flag) /\ inv[i].policy = "failed"
        /\ inv[i].restore = "ok" /\ inv[i].pc = "done"

\* C4: an initiateChat whose tryRestoreSession succeeded returns the stored
\* user and has called none of getNonce, create-session, verifyIdentityToken
\* and saveSession.
C4_RestoreSuccessStops ==
    \A i \in DOMAIN inv :
        (inv[i].path = "restore" /\ inv[i].restore = "ok") =>
            /\ inv[i].pc = "done"
            /\ inv[i].outcome = "resolved"
            /\ inv[i].result = inv[i].sessUser
            /\ inv[i].calls \cap {"getNonce", "apiInitiateChat",
                                  "verifyIdentityToken", "saveSession"} = {}

\* C4 witness: a restoration succeeded while another user was configured.
C4_Witness ==
    \E i \in DOMAIN inv :
        /\ inv[i].path = "restore" /\ inv[i].restore = "ok"
        /\ inv[i].cfg # inv[i].sessUser /\ inv[i].result = "u1"
        /\ "chat:restored" \in EventNames

\* C5: while the application is sessional and the stored room is resolved,
\* no step takes the State Store to logged in with that room as roomId.
C5_NoLoginIntoResolvedRoom ==
    [][ LET r == StoredSession.roomId
        IN (/\ sessional
            /\ ~StoredSession.nil /\ r \in resolved
            /\ storage' = storage
            /\ ~(state.isLoggedIn /\ state.roomId = r))
           => ~(state'.isLoggedIn /\ state'.roomId = r) ]_vars

\* C6: after startup of a widget whose application differs from the one the
\* stored tuple belongs to, getSession returns no tuple, the State Store is
\* still empty and nothing of the tuple is in the transport.
C6_NoCrossTenantReuse ==
    (phase = "ready" /\ storage.lastAppId \notin {NULL, appId}) =>
        /\ StoredSession.nil
        /\ state.currentUser = NULL
        /\ state.roomId = NULL
        /\ ~state.isLoggedIn
        /\ sdk.token = NULL /\ sdk.userData = NULL

\* C7: no two entries of messagesList share a dedup identity (id if present,
\* else the temporary id).
C7_NoDuplicateIdentity ==
    \A a, b \in 1..Len(MessagesList) :
        a # b => Identity(MessagesList[a]) # Identity(MessagesList[b])

\* C8: when the pending message with temporary id t1 is in the list and its
\* server-confirmed version is inserted, the list then holds exactly one
\* entry for t1, the confirmed one.
C8_ConfirmedReplacesPending ==
    [][ (/\ \E k \in 1..Len(MessagesList) : MessagesList[k] = P1
         /\ \E e \in 1..Len(emitted') :
               /\ emitted'[e].name \in {"message:received", "message:sent"}
               /\ emitted'[e].msg = S1)
        => LET l == state'.messagesList
               T == {k \in 1..Len(l) : l[k].unique_temp_id = "t1"}
           IN Cardinality(T) = 1 /\ \A k \in T : l[k] = S1 ]_vars

\* C9: when chat:initiated or chat:restored is emitted, the State Store is
\* logged in with the user and the room id the event carries.
C9_StateBeforeEvent ==
    \A k \in 1..Len(emitted) :
        emitted[k].name \in {"chat:initiated", "chat:restored"} =>
            /\ state.isLoggedIn
            /\ state.currentUser = emitted[k].user
            /\ state.roomId = emitted[k].roomId

\* C10: sendMessage with blank text fails with the empty-message error in
\* every state, sendMessage with text but no room id fails with the
\* no-active-room error, and neither calls the transport send.
C10_SendValidation ==
    /\ (send.pc # "idle" /\ send.text \in {"", "   "}) =>
           /\ send.pc = "done" /\ send.outcome = "rejected"
           /\ send.error = "Message text cannot be empty"
           /\ send.sends = 0
    /\ (send.pc # "idle" /\ send.text = "hi" /\ send.roomId = NULL) =>
           /\ send.pc = "done" /\ send.outcome = "rejected"
           /\ send.error = "No active room"
           /\ send.sends = 0

\* the messages carried by a sequence of events, in emission order
Carried(ev) == [k \in 1..Len(ev) |-> ev[k].msg]
AllNamed(ev, n) == ev # <<>> /\ \A k \in 1..Len(ev) : ev[k].name = n

\* the messages of a batch that addMessage does not drop as already known
RECURSIVE Fresh(_, _)
Fresh(keys, ms) ==
    IF ms = <<>> THEN <<>>
    ELSE IF MsgKey(Head(ms)) \in keys THEN Fresh(keys, Tail(ms))
    ELSE <<Head(ms)>> \o Fresh(keys \cup {MsgKey(Head(ms))}, Tail(ms))

\* C11: a delivery of n messages (one message:received per message, in the
\* delivered order) raises unreadCount by exactly n while the widget is
\* closed and leaves it unchanged while it is open, and the messages that
\* are not dropped as already known are appended to the message list in the
\* delivered order, with no re-sorting.
C11_HandleNewMessages ==
    [][ AllNamed(emitted', "message:received") =>
          LET batch == Carried(emitted')
          IN /\ state'.unreadCount =
                  state.unreadCount + (IF state.isOpen THEN 0 ELSE Len(batch))
             /\ state'.messagesList =
                  state.messagesList \o Fresh(state.messages, batch)
             /\ state'.isOpen = state.isOpen ]_vars

\* C11 witness: the closed widget received S2 then S1 (newest first): both
\* are in the list in that order and two messages are unread.
C11_Witness ==
    /\ AllNamed(emitted, "message:received")
    /\ Carried(emitted) = <<S2, S1>>
    /\ ~state.isOpen
    /\ MessagesList = <<S2, S1>>
    /\ state.unreadCount = 2

\* C12: a sendMessage that passed validation has called the transport send
\* exactly once; when the send settles, message:sent is emitted if and only
\* if it succeeded, and then the returned message has been through
\* addMessage (it is appended unless an entry with its key was stored
\* already); when the send fails the caller gets the error, the message
\* list is unchanged and message:sent is not emitted.
C12_SendOnce ==
    [][ /\ send'.pc = "sending" => send'.sends = 1
        /\ (send.pc = "sending" /\ send'.pc = "done") =>
              /\ send'.sends = 1
              /\ send'.outcome \in {"resolved", "rejected"}
              /\ send'.outcome = "resolved" =>
                    /\ AllNamed(emitted', "message:sent") /\ Len(emitted') = 1
                    /\ state'.messagesList =
                         state.messagesList
                           \o Fresh(state.messages, Carried(emitted'))
                    /\ MsgKey(emitted'[1].msg) \in state'.messages
              /\ send'.outcome = "rejected" =>
                    /\ emitted' = <<>>
                    /\ send'.error # "none"
                    /\ state'.messagesList = state.messagesList
        /\ (\E k \in 1..Len(emitted') : emitted'[k].name = "message:sent") =>
              send.pc = "sending" /\ send'.outcome = "resolved" ]_vars

\* C12 witness: a send succeeded: one transport call, message:sent carries
\* S2 and S2 is in the message list.
C12_Witness ==
    /\ send.pc = "done" /\ send.outcome = "resolved" /\ send.sends = 1
    /\ emitted = <<MsgEvent("message:sent", S2)>>
    /\ \E k \in 1..Len(MessagesList) : MessagesList[k] = S2

\* invocation i of initiateChat starts with this step
Starts(i) ==
    /\ inv[i].pc \in {"idle", "done"}
    /\ inv'[i] # inv[i]
    /\ inv'[i].path \in {"fresh", "restore"}

\* what a fresh initiation has done right after its start: it awaits
\* getNonce, or it failed on the missing SDK
FreshStarted(r, k) ==
    /\ r.path = "fresh" /\ r.restore = "none" /\ r.sessUser = NULL
    /\ \/ r.pc = "nonce" /\ r.calls = {"getNonce"}
       \/ ~k.ready /\ r.pc = "done" /\ r.outcome = "rejected" /\ r.calls = {}

\* C13: an initiateChat that starts while the Session Store has no tuple
\* for the application performs fresh initiation: it does not call
\* tryRestoreSession, authenticates no stored user and emits no
\* chat:restored, at its start and for as long as it runs.
C13_NoTupleNoRestore ==
    [][ \A i \in DOMAIN inv :
          /\ (Starts(i) /\ getSession(storage, appId).nil) =>
                /\ FreshStarted(inv'[i], sdk)
                /\ \A k \in 1..Len(emitted') : emitted'[k].name # "chat:restored"
          /\ inv[i].path = "fresh" =>
                /\ inv[i].restore = "none" /\ inv[i].sessUser = NULL
                /\ inv[i].pc \notin {"auth", "wait", "policy"}
                /\ "getSessionStatus" \notin inv[i].calls
                /\ "chat:restored" \notin EventNames
                /\ (inv[i].pc # "done" /\ inv'[i].pc # "idle") =>
                       inv'[i].path = "fresh" ]_vars

\* C13 witness: the store holds only the tuple of the other application and
\* the invocation has reached the create-session call of fresh initiation.
C13_Witness ==
    \E i \in DOMAIN inv :
        /\ storage.lastAppId = "appB" /\ appId = "appA"
        /\ inv[i].path = "fresh" /\ inv[i].pc = "create"
        /\ "apiInitiateChat" \in inv[i].calls

\* a tuple of this application that misses exactly one of user, token, room
Partial(sto, app) ==
    /\ sto.lastAppId = app
    /\ Cardinality({k \in {"lastUserData", "lastUserToken", "lastRoomId"} :
                      sto[k] = NULL}) = 1

\* C14: with a tuple that misses exactly one of user, token and room id,
\* tryRestoreSession returns null without calling the transport or the
\* backend, and an initiateChat that starts performs fresh initiation
\* instead of raising the restoration failure.
C14_PartialTupleIsAbsent ==
    [][ Partial(storage, appId) =>
          \A i \in DOMAIN inv :
             /\ LET c == tryRestoreSession(Ctx(i), appId)
                IN /\ c.r.restore = "null"
                   /\ c.r.calls = inv[i].calls
                   /\ c.sdk = sdk /\ c.storage = storage /\ c.state = state
             /\ Starts(i) => FreshStarted(inv'[i], sdk) ]_vars

\* C14 witness: the stored tuple has no room id and the invocation has
\* reached the create-session call of fresh initiation.
C14_Witness ==
    \E i \in DOMAIN inv :
        /\ Partial(storage, appId) /\ storage.lastRoomId = NULL
        /\ inv[i].path = "fresh" /\ inv[i].pc = "create"

\* the calls of fresh initiation in the order of the code; loadMore is the
\* second fetch of updateRoomInfo
FreshOrder ==
    <<"getNonce", "apiInitiateChat", "verifyIdentityToken", "setUserWithToken",
      "saveSession", "getRoom", "loadMore">>
FirstCalls(n) == {FreshOrder[k] : k \in 1..n}
CallsAt(pc) ==
    CASE pc = "nonce" -> 1 [] pc = "create" -> 2 [] pc = "verify" -> 3
      [] pc = "setuser" -> 4 [] pc = "room" -> 6 [] pc = "prev" -> 7

\* C15: the calls a fresh initiation has made are always a prefix of
\* getNonce, create-session, verifyIdentityToken, setUserWithToken,
\* saveSession, updateRoomInfo, and while it awaits one of them it has made
\* exactly the calls up to that one; setUserWithToken gets the user that
\* verifyIdentityToken returned to this invocation; the step that saves the
\* session also logs the State Store in and starts updateRoomInfo, and emits
\* nothing; chat:initiated comes after all of them; a rejected invocation
\* emits no chat:initiated; and when a step fails, the write of saveSession
\* included, the invocation rejects and no later step runs.
C15_FreshOrder ==
    [][ \A i \in DOMAIN inv :
          inv'[i].path = "fresh" =>
            LET r == inv'[i]
                initiatedNow == \E k \in 1..Len(emitted') :
                                   emitted'[k].name = "chat:initiated"
            IN /\ \E n \in 0..Len(FreshOrder) : r.calls = FirstCalls(n)
               /\ r.pc \notin {"idle", "done"} => r.calls = FirstCalls(CallsAt(r.pc))
               /\ r.pc = "setuser" => r.userData = r.cfg /\ r.userData # NULL
               /\ ("saveSession" \in r.calls /\ "saveSession" \notin inv[i].calls) =>
                     /\ inv[i].pc = "setuser"
                     /\ ~r.saveFailed => r.pc = "room"
                     /\ sdk'.isLogin /\ sdk'.userData = inv[i].userData
                     /\ ~r.saveFailed =>
                           getSession(storage', r.app) =
                             [nil |-> FALSE, user |-> r.userData,
                              token |-> sdk'.token, roomId |-> r.roomId]
                     /\ state'.isLoggedIn /\ state'.currentUser = r.userData
                     /\ state'.roomId = r.roomId
                     /\ emitted' = <<>>
               /\ initiatedNow =>
                     /\ inv[i].pc \in {"room", "prev"}
                     /\ r.pc = "done" /\ r.outcome = "resolved"
                     /\ FirstCalls(6) \subseteq r.calls
               /\ (r.pc = "done" /\ r.outcome = "rejected") => ~initiatedNow
               /\ r.saveFailed =>
                     /\ r.pc = "done" /\ r.outcome = "rejected"
                     /\ "getRoom" \notin r.calls ]_vars

\* C16: a clearSession that runs while no initiateChat is in flight leaves
\* no tuple in the Session Store for any application and the State Store
\* equal to its initial snapshot, emits session:cleared, and an
\* initiateChat started in the resulting state takes the fresh path.
C16_ClearSession ==
    [][ (/\ \E k \in 1..Len(emitted') : emitted'[k].name = "session:cleared"
         /\ \A i \in DOMAIN inv : inv[i].pc \in {"idle", "done"})
        => /\ \A a \in Apps : getSession(storage', a).nil
           /\ state' = InitialState
           /\ state'.currentUser = NULL /\ state'.room.nil
           /\ state'.messagesList = <<>> /\ ~state'.isLoggedIn
           /\ ~state'.isOpen /\ state'.unreadCount = 0
           /\ emitted' = <<Event("session:cleared", NULL, NULL, FALSE, FALSE)>>
           /\ \A i \in DOMAIN inv, u \in Users, ch \in ChannelIds :
                 LET c == [r |-> inv'[i], state |-> state', storage |-> storage',
                           sdk |-> sdk', nonces |-> nonces', ev |-> <<>>]
                 IN FreshStarted(initiateChat(c, appId', ch, u).r, sdk') ]_vars

\* C16 witness: a session that was initiated, saved and shown has just been
\* cleared.
C16_Witness ==
    \E i \in DOMAIN inv :
        /\ inv[i].pc = "done" /\ inv[i].outcome = "resolved"
        /\ "saveSession" \in inv[i].calls /\ ~inv[i].saveFailed
        /\ "session:cleared" \in EventNames
        /\ state = InitialState /\ storage = EmptyStorage

\* C17: every chat:restored event carries a user, a room id, the room and
\* the messages.
C17_RestoredCarriesAll ==
    \A k \in 1..Len(emitted) :
        emitted[k].name = "chat:restored" =>
            /\ emitted[k].user # NULL /\ emitted[k].roomId # NULL
            /\ emitted[k].room /\ emitted[k].messages

Range(q) == {q[k] : k \in 1..Len(q)}
Identities(q) == {Identity(q[k]) : k \in 1..Len(q)}

\* a direct call of updateRoomInfo returns with this step
RoomInfoReturns(i) ==
    /\ inv'[i].path = "roominfo" /\ inv'[i].pc = "done"
    /\ inv'[i] # inv[i]

\* C18: when updateRoomInfo is called again for the same room, the transport
\* returns the same messages (possibly repeated by a pagination overlap)
\* and the message list was not changed since the first call returned, the
\* dedup identities in the message list after the second call are those
\* after the first.
C18_UpdateRoomInfoIdempotent ==
    [][ \A i \in DOMAIN inv :
          (/\ RoomInfoReturns(i)
           /\ inv'[i].before.has /\ inv'[i].result = "room"
           /\ Range(inv'[i].msgs) = Range(inv'[i].before.fetch)
           /\ state.messagesList = inv'[i].before.list)
          => Identities(state'.messagesList)
               = Identities(inv'[i].before.list) ]_vars

\* C18 witness: the first call fetched S1, the second fetched S1 twice (the
\* previous page overlaps the room's comments), and the list holds S1 once.
C18_Witness ==
    \E i \in DOMAIN inv :
        /\ inv[i].path = "roominfo" /\ inv[i].pc = "done"
        /\ inv[i].result = "room"
        /\ inv[i].before.has /\ inv[i].before.fetch = <<S1>>
        /\ inv[i].before.list = <<S1>>
        /\ inv[i].msgs = <<S1, S1>>
        /\ MessagesList = <<S1>>

\* C19: updateRoomInfo called while the transport is not authenticated, or
\* with no room id, returns the empty result without raising, fetches
\* nothing and leaves the State Store as it was.
C19_UpdateRoomInfoNoAuth ==
    [][ \A i \in DOMAIN inv :
          (/\ inv[i].pc \in {"idle", "done"}
           /\ inv'[i].path = "roominfo" /\ inv'[i] # inv[i]
           /\ (~sdk.isLogin \/ inv'[i].roomId = NULL))
          => /\ inv'[i].pc = "done" /\ inv'[i].outcome = "resolved"
             /\ inv'[i].result = "empty" /\ inv'[i].msgs = <<>>
             /\ inv'[i].calls = {}
             /\ state' = state /\ sdk' = sdk /\ storage' = storage
             /\ emitted' = <<>> ]_vars

\* C19 witness: a room id was passed while the SDK was loaded but nobody was
\* logged in, and the call returned the empty result.
C19_Witness ==
    \E i \in DOMAIN inv :
        /\ sdk.ready /\ ~sdk.isLogin
        /\ inv[i].path = "roominfo" /\ inv[i].roomId = "n1"
        /\ inv[i].pc = "done" /\ inv[i].result = "empty"

InFlight(r) == r.pc \notin {"idle", "done"}

Issued(i) == inv'[i].calls \ inv[i].calls

\* C21: on the restoration path the readiness wait starts only when the
\* token authentication of the stored user has succeeded (the transport is
\* then logged in as that user), the room fetch is issued only by the step
\* that ends the wait, and an invocation whose authentication failed ends
\* without a room fetch and without a policy lookup.
C21_FetchAfterAuth ==
    [][ \A i \in DOMAIN inv :
          inv'[i].path = "restore" =>
            /\ "setTimeout" \in Issued(i) =>
                  /\ inv[i].pc = "auth"
                  /\ "setUserWithToken" \in inv[i].calls
                  /\ sdk'.isLogin /\ sdk'.userData = inv'[i].sessUser
            /\ "getRoom" \in Issued(i) =>
                  /\ inv[i].pc = "wait"
                  /\ {"setUserWithToken", "setTimeout"} \subseteq inv[i].calls
                  /\ sdk.isLogin /\ sdk.userData = inv[i].sessUser
            /\ "getSessionStatus" \in Issued(i) => "getRoom" \in inv[i].calls
            /\ (inv[i].pc = "auth" /\ inv'[i].pc \notin {"auth", "wait"}) =>
                  /\ inv'[i].pc = "done" /\ inv'[i].restore = "null"
                  /\ inv'[i].calls = {"setUserWithToken"} ]_vars

\* C21 witness: after authentication and the wait, the room of the stored
\* session is being fetched.
C21_Witness ==
    \E i \in DOMAIN inv :
        /\ inv[i].path = "restore" /\ inv[i].pc = "room"
        /\ inv[i].calls = {"setUserWithToken", "setTimeout", "getRoom"}
        /\ sdk.isLogin /\ sdk.userData = inv[i].sessUser


\* invocation i settles with this step
Settles(i) ==
    /\ inv'[i].pc = "done"
    /\ \E k \in 1..Len(emitted') :
          emitted'[k].name \in {"chat:error", "chat:restored", "chat:initiated"}

\* C22: a restoration ends with tryRestoreSession returning the session or
\* null, never with an exception; when it fails (authentication rejected,
\* room fetch threw or gave no room, malformed stored user, refusal for a
\* resolved sessional room) initiateChat takes its null branch (chat:error
\* of that branch, then of its catch block), no chat:restored is emitted
\* and isLoggedIn, currentUser and roomId of the State Store stay as they
\* were.
C22_RestoreNeverRaises ==
    [][ \A i \in DOMAIN inv :
          (Settles(i) /\ inv'[i].path = "restore") =>
            /\ inv'[i].restore \in {"ok", "null"}
            /\ inv'[i].restore = "null" =>
                  /\ inv'[i].errors = 2
                  /\ inv'[i].outcome = "rejected"
                  /\ emitted' = <<Event("chat:error", NULL, NULL, FALSE, FALSE),
                                  Event("chat:error", NULL, NULL, FALSE, FALSE)>>
                  /\ state'.isLoggedIn = state.isLoggedIn
                  /\ state'.currentUser = state.currentUser
                  /\ state'.roomId = state.roomId ]_vars

\* C22 witness: the stored user record was malformed and the restoration
\* ended in the null branch of initiateChat without a call to the transport.
C22_Witness ==
    \E i \in DOMAIN inv :
        /\ inv[i].path = "restore" /\ inv[i].restore = "null"
        /\ inv[i].errors = 2 /\ inv[i].sessUser = Malformed
        /\ inv[i].calls = {}


\* C23: a call of checkIfRoomResolved returns normally, and it returns true
\* exactly when the State Store has a room whose options, an object or a
\* string that parses, carry is_resolved = true or extras.is_resolved =
\* true; without a room, without options and with options that do not
\* parse it returns false.
C23_CheckIfRoomResolved ==
    \A i \in DOMAIN inv :
        inv[i].path = "check" =>
            /\ inv[i].pc = "done" /\ inv[i].outcome = "resolved"
            /\ inv[i].isResolved \in {"yes", "no"}
            /\ inv[i].isResolved = "yes"
                 <=> (inv[i].fetched /\ FlagResolved(inv[i].flag))
            /\ (~inv[i].fetched \/ inv[i].flag.kind \in {"absent", "badstring"})
                 => inv[i].isResolved = "no"

\* C23 witness: the options of the room are a serialized object whose
\* extras carry the flag, and the call returned true.
C23_Witness ==
    \E i \in DOMAIN inv :
        /\ inv[i].path = "check" /\ inv[i].isResolved = "yes"
        /\ state.room = RoomObj("n2", OptStr(FALSE, TRUE))
        /\ inv[i].flag = OptStr(FALSE, TRUE)


\* C24: the step that issues a create-session call is the one in which the
\* getNonce call of the same invocation returned; the nonce it sends is the
\* value the transport has just handed out, which no invocation holds or
\* has held before (every nonce an invocation holds is among those handed
\* out so far), so no value goes into two create-session calls.
C24_FreshNonce ==
    [][ \A i \in DOMAIN inv :
          /\ inv'[i].nonce <= nonces'
          /\ "apiInitiateChat" \in Issued(i) =>
                /\ inv[i].pc = "nonce" /\ inv[i].calls = {"getNonce"}
                /\ inv[i].nonce = 0
                /\ nonces' = nonces + 1
                /\ inv'[i].nonce = nonces'
                /\ "nonce" \in inv'[i].payload
                /\ \A j \in DOMAIN inv : inv[j].nonce # inv'[i].nonce ]_vars

\* C24 witness: the first attempt was rejected after its create-session
\* call, and the attempt after it sends the second nonce.
C24_Witness ==
    /\ DOMAIN inv = Overlapping
    /\ inv[1].pc = "done" /\ inv[1].outcome = "rejected"
    /\ "apiInitiateChat" \in inv[1].calls
    /\ inv[2].pc = "create" /\ inv[2].nonce = 2 /\ nonces = 2


\* C25: the body of a create-session call that has been issued has the key
\* channel_id exactly when the invocation was given a channel id; without
\* one (null or undefined) the key is not there, and the other keys are.
C25_ChannelIdKey ==
    \A i \in DOMAIN inv :
        ("apiInitiateChat" \in inv[i].calls /\ InFlight(inv[i])) =>
            /\ "channel_id" \in inv[i].payload <=> inv[i].channelId # NULL
            /\ inv[i].channelId = NULL =>
                  inv[i].payload = {"app_id", "user_id", "name", "avatar",
                                    "sdk_user_extras", "user_properties", "nonce"}

\* C25 witness: one create-session call is in flight with a channel id and
\* one without.
C25_Witness ==
    /\ DOMAIN inv = Overlapping
    /\ inv[1].pc = "create" /\ inv[1].channelId = NULL
    /\ "channel_id" \notin inv[1].payload
    /\ inv[2].pc = "create" /\ inv[2].channelId = "ch1"
    /\ "channel_id" \in inv[2].payload


\* C26: an initiateChat that resolved, by fresh initiation or by
\* restoration, has called saveSession and its write reached the Session
\* Store.
C26_TupleWritten ==
    \A i \in DOMAIN inv :
        (/\ inv[i].path \in {"fresh", "restore"}
         /\ inv[i].pc = "done" /\ inv[i].outcome = "resolved")
        => /\ "saveSession" \in inv[i].calls
           /\ ~inv[i].saveFailed


\* the events of the last step that announce the end of an initiation
Announced(n) == \E k \in 1..Len(emitted) : emitted[k].name = n

\* C27: when every call settles, an invocation that is in flight
\* eventually settles; it resolves in a step that emits chat:initiated or
\* chat:restored and rejects in a step that emits chat:error; and an
\* invocation in flight moves only when the call it awaits settles, so it
\* stays in flight for as long as that call does not.
C27_Settles ==
    /\ \A i \in Inv : InFlight(inv[i]) ~> (inv[i].pc = "done")
    /\ [][ \A i \in Inv :
             /\ (InFlight(inv[i]) /\ inv'[i] # inv[i]) => Completes(i)
             /\ (InFlight(inv[i]) /\ inv'[i].pc = "done") =>
                   /\ inv'[i].outcome \in {"resolved", "rejected"}
                   /\ inv'[i].outcome = "resolved" =>
                         \E k \in 1..Len(emitted') :
                            emitted'[k].name \in {"chat:initiated", "chat:restored"}
                   /\ inv'[i].outcome = "rejected" =>
                         \E k \in 1..Len(emitted') :
                            emitted'[k].name = "chat:error" ]_vars

\* C27 witness: an invocation that went through authentication, the wait,
\* both fetches of updateRoomInfo and the policy lookup has settled by
\* restoring the stored session.
C27_Witness ==
    \E i \in DOMAIN inv :
        /\ inv[i].pc = "done" /\ inv[i].path = "restore"
        /\ inv[i].outcome = "resolved"
        /\ inv[i].calls = {"setUserWithToken", "setTimeout", "getRoom",
                           "loadMore", "getSessionStatus"}
        /\ Announced("chat:restored")


\* C28: a call of the create-session or the session-policy endpoint whose
\* response is not 2xx fails, and the message of its error is
\* errors.message of the body when the body has one and the generic
\* description of the endpoint in every other case, a body that is no JSON
\* included.
C28_GatewayErrorMessage ==
    \A i \in DOMAIN inv :
        (/\ inv[i].path = "api" /\ inv[i].pc = "done"
         /\ inv[i].response # NoResponse
         /\ ~ResponseOk(inv[i].response.status))
        => /\ inv[i].outcome = "rejected"
           /\ inv[i].message =
                IF inv[i].response.body.kind = "object"
                   /\ inv[i].response.body.hasErrors
                   /\ inv[i].response.body.message # NULL
                THEN inv[i].response.body.message
                ELSE Fallback(inv[i].endpoint)


\* C29: a constructor call without appId throws and leaves everything as it
\* was: no widget, no service, no SDK load, and nothing happens afterwards;
\* widget.initiateChat without a configured user rejects at once, without
\* entering chatService.initiateChat: no call to the transport or the
\* backend, no event, Session Store, State Store and SDK untouched, and
\* the invocation is over (nothing is retried).
C29_ConfigErrorsAtEntry ==
    [][ /\ (phase = "page" /\ phase' # "page" /\ appId' = NULL) =>
              /\ phase' = "threw"
              /\ UNCHANGED <<appId, userConfig, storage, state, sdk, inv,
                             send, more, nonces>>
        /\ phase = "threw" => UNCHANGED vars
        /\ \A i \in DOMAIN inv :
              (/\ userConfig = NULL /\ inv[i].pc \in {"idle", "done"}
               /\ inv'[i] # inv[i]) =>
                 /\ inv'[i] = [IdleInv EXCEPT !.pc = "done", !.path = "config",
                                              !.outcome = "rejected"]
                 /\ inv'[i].calls = {}
                 /\ emitted' = <<>>
                 /\ UNCHANGED <<storage, state, sdk, nonces, userConfig>>
        /\ \A i \in DOMAIN inv :
              inv[i].path = "config" => inv[i].pc = "done" ]_vars

\* C29 witness: the widget was constructed on a page that holds a stored
\* session of the application, the SDK failed to load so that no user was
\* configured from it, and initiateChat was rejected for the missing user.
C29_Witness ==
    \E i \in DOMAIN inv :
        /\ phase = "ready" /\ userConfig = NULL /\ ~sdk.ready
        /\ ~StoredSession.nil
        /\ inv[i].path = "config" /\ inv[i].outcome = "rejected"


\* C30: on a page that found a stored session, the widget is open and
\* logged in with a room id only if the room of that id has been fetched
\* into the State Store by updateRoomInfo during this page life.
C30_RestoredThroughOrchestrator ==
    (state.isOpen /\ state.isLoggedIn /\ state.roomId # NULL) =>
        /\ ~state.room.nil
        /\ state.room.id = state.roomId


\* C31: an invocation of chatService.initiateChat that has rejected, on the
\* fresh path or because the stored session could not be restored, has
\* emitted chat:error exactly once.
C31_ErrorOnce ==
    \A i \in DOMAIN inv :
        (/\ inv[i].path \in {"fresh", "restore"}
         /\ inv[i].pc = "done" /\ inv[i].outcome = "rejected")
        => inv[i].errors = 1


\* the events named n among ev
CountNamed(ev, n) == Cardinality({k \in 1..Len(ev) : ev[k].name = n})

\* C32: the step in which an invocation ends with a successful restoration
\* emits chat:restored exactly once.
C32_RestoredOnce ==
    [][ \A i \in DOMAIN inv :
          (inv'[i] # inv[i] /\ inv'[i].restore = "ok")
          => CountNamed(emitted', "chat:restored") = 1 ]_vars

\* isLoggedIn, currentUser and roomId of a State Store
Login(s) == <<s.isLoggedIn, s.currentUser, s.roomId>>

\* C33: on a page with one initiation, an invocation that has rejected
\* leaves the Session Store and isLoggedIn, currentUser and roomId of the
\* State Store as the page had them before the call: empty and logged out
\* where fresh initiation ran, the stored tuple and what restoreSession()
\* made of it where restoration ran.
C33_FailureLeavesNoTrace ==
    \A i \in DOMAIN inv :
        (inv[i].pc = "done" /\ inv[i].outcome = "rejected") =>
            /\ inv[i].path = "fresh" =>
                  /\ storage = EmptyStorage
                  /\ Login(state) = Login(InitialState)
            /\ inv[i].path = "restore" =>
                  /\ storage \in StoredTuples
                  /\ Login(state) = Login(restoreSession(storage, InitialState))

\* C34: when saveSession(appId, user, token, roomId) has written its keys,
\* the next getSession(appId) returns a session with exactly that user,
\* that token and that room id.
C34_RoundTrip ==
    \A i \in DOMAIN inv :
        (inv[i].path = "store" /\ inv[i].pc = "done" /\ ~inv[i].saveFailed) =>
            inv[i].session = [nil |-> FALSE, user |-> inv[i].userData,
                              token |-> inv[i].token, roomId |-> inv[i].roomId]

\* C35: userConfig is null while the last invocation of
\* chatService.initiateChat was started with a user only if clearUser has
\* run since that start and no user was configured afterwards, so no
\* initiateChat has started after the clear; in every such state the Session
\* Store holds no tuple and the State Store is logged out, whether that
\* invocation was in flight when the clear ran or not.
C35_ClearedStaysCleared ==
    \A i \in DOMAIN inv :
        (userConfig = NULL /\ inv[i].path \in {"fresh", "restore"}) =>
            /\ \A a \in Apps : getSession(storage, a).nil
            /\ storage = EmptyStorage
            /\ ~state.isLoggedIn

\* C36: the tuple in the Session Store is that of one invocation: its token
\* is the one the transport issued for its user, and currentUser and roomId
\* of the State Store are the user and the room id of the tuple (save and
\* state update of an invocation are one step, so no invocation is ever
\* between them); without a tuple the State Store has neither.
C36_TupleNotMixed ==
    IF StoredSession.nil
    THEN state.currentUser = NULL /\ state.roomId = NULL
    ELSE /\ StoredSession.token = TokenOf(StoredSession.user)
         /\ state.currentUser = StoredSession.user
         /\ state.roomId = StoredSession.roomId

\* C37: a restoration has called the session-policy endpoint only if the
\* room it fetched is resolved; with a fetched room that is not resolved it
\* makes no such call; the call is issued by the step in which
\* updateRoomInfo returned, by an invocation that has not made it before,
\* and the invocation ends when the call returns, so each tryRestoreSession
\* makes it at most once.
C37_PolicyOnlyWhenResolved ==
    [][ \A i \in DOMAIN inv :
          inv'[i].path = "restore" =>
            /\ "getSessionStatus" \in inv'[i].calls =>
                  /\ inv'[i].fetched /\ FlagResolved(inv'[i].flag)
                  /\ inv'[i].isResolved = "yes"
            /\ (inv'[i].fetched /\ ~FlagResolved(inv'[i].flag)) =>
                  "getSessionStatus" \notin inv'[i].calls
            /\ "getSessionStatus" \in Issued(i) =>
                  /\ inv[i].pc \in {"room", "prev"}
                  /\ inv'[i].pc = "policy"
            /\ (inv'[i].pc = "policy" /\ inv[i].pc # "policy") =>
                  "getSessionStatus" \notin inv[i].calls
            /\ (inv[i].pc = "policy" /\ inv'[i] # inv[i]) =>
                  inv'[i].pc = "done" ]_vars

\* C37 witness: the stored room was fetched with both pages of messages, it
\* is not resolved, and the session was restored without a policy lookup.
C37_Witness ==
    \E i \in DOMAIN inv :
        /\ inv[i].path = "restore" /\ inv[i].pc = "done"
        /\ inv[i].fetched /\ ~FlagResolved(inv[i].flag)
        /\ inv[i].restore = "ok"
        /\ inv[i].calls = {"setUserWithToken", "setTimeout", "getRoom", "loadMore"}

\* C38: a delivery to the closed widget raises unreadCount by the number of
\* messages it adds to the message list; a message dropped as a duplicate
\* is not counted.
C38_DuplicateNotCounted ==
    [][ (AllNamed(emitted', "message:received") /\ ~state.isOpen) =>
          state'.unreadCount - state.unreadCount
            = Len(state'.messagesList) - Len(state.messagesList) ]_vars

\* C39: whenever the widget is open, unreadCount is 0.
C39_OpenMeansRead == state.isOpen => state.unreadCount = 0


====
